---- MODULE Spec2Model ----
(***************************************************************************)
(* Model of python-terrafile: terrafile/__init__.py (Terrafile.update_repos *)
(* and update_module), terrafile/patch.py (Patch) and                       *)
(* terrafile/repository.py (Repo.clone).                                    *)
(*                                                                          *)
(* A string that the code splits or matches is kept as the sequence of its  *)
(* '/'-separated segments: "./mod" is <<".", "mod">>, "/opt/mod" is         *)
(* <<"", "opt", "mod">>, "ns/vpc/aws//sub" is <<"ns","vpc","aws","","sub">>.*)
(* A trailing ".git" is kept as a segment of its own.                       *)
(*                                                                          *)
(* Interpreter: the code needs f-strings (>= 3.6) and calls                 *)
(* traceback.format_exception(etype=...) (<= 3.9); the thread pool is       *)
(* concurrent.futures.ThreadPoolExecutor of those versions: a FIFO work     *)
(* queue, at most max_workers threads, a worker stores any BaseException    *)
(* (SystemExit included) in its future, and leaving the `with` block calls  *)
(* shutdown(wait=True).                                                     *)
(***************************************************************************)
EXTENDS Integers, Sequences, FiniteSets, TLC

\* ------------------------------------------------------------------ bounds
NumModules == 3       \* modules of one Terrafile in the orchestration runs
MaxJobs == 2          \* largest configured setup.jobs
MaxInline == 2        \* longest `patches` list
MaxFile == 2          \* longest `patches_file` list
MaxSeries == 3        \* most quilt commands in a run of direct Patch calls

\* ------------------------------------------------------------------ inputs
SrcLocal == <<".", "mod">>
SrcParent == <<"..", "mod">>
SrcAbs == <<"", "opt", "mod">>
SrcRegistry == <<"ns", "vpc", "aws">>
SrcRegistrySub == <<"ns", "vpc", "aws", "", "sub">>
SrcDirect == <<"https:", "", "github.com", "u", "r", ".git">>
SrcOther == <<"https:", "", "example.org", "r", ".git">>
SrcMirror == <<"https:", "", "example.org", "github.com", "u", "r", ".git">>

Version == "v1"
OtherTag == "v0"

\* X-Terraform-Get headers: one of the documented shape, and a missing one.
GoodHeader == <<"https:", "", "api.github.com", "repos", "u", "r", "tarball", "v1.0.0", "x">>
NoHeader == <<>>
Responses == [status_code : {204, 200}, header : {GoodHeader, NoHeader}]

\* Exit statuses of `git clone`, `quilt import`, `quilt push -a`.
CloneStatuses == {0, 2}
QuiltStatuses == {0, 1}

\* Files present under the configuration root.
ExistingFiles == {"ok.patch"}
PatchFiles == {"ok.patch", "missing.patch"}
PatchTexts == {"A", ""}

RECURSIVE SeqsUpTo(_, _)
SeqsUpTo(S, n) ==
  IF n = 0 THEN {<<>>}
  ELSE LET shorter == SeqsUpTo(S, n - 1)
       IN shorter \cup {Append(s, x) : s \in {t \in shorter : Len(t) = n - 1}, x \in S}

\* ------------------------------------------------------------------ state
VARIABLES
  config,    \* the `setup` mapping of the Terrafile: empty or [jobs |-> j]
  conf,      \* the modules mapping: name -> [source, version, patches, patches_file]
  environ,   \* os.environ: empty or [GITHUB_TOKEN |-> t]
  fs,        \* fs[m]: the target directory cwd/name of module m
  task,      \* task[m]: the future of update_module(cwd, m, conf[m]) and its position
  cmds,      \* cmds[m]: the external calls task m has issued, in order
  mainPc,    \* position of the main thread in update_repos / main
  errors,    \* the local `errors` of update_repos
  yielded,   \* futures as_completed has handed to the loop body
  exc,       \* exception propagating in the main thread: <<>> or <<code>> (SystemExit)
  exitCode   \* process exit status: <<>> while running, <<code>> once exited

vars == <<config, conf, environ, fs, task, cmds, mainPc, errors, yielded, exc, exitCode>>

Modules == DOMAIN conf

\* ------------------------------------------------------------------ helpers
\* f'patch_{i}.patch'
PatchName(i) == <<"patch_", i, ".patch">>

\* source.startswith('./') or source.startswith('../') or source.startswith('/')
startswith_local(source) ==
  Len(source) >= 2 /\ source[1] \in {".", "..", ""}

name_sub_regex(seg) == seg \in {"ns", "vpc", "u", "r"}
provider_sub_regex(seg) == seg \in {"aws"}

is_valid_registry_source(source) ==
  /\ Len(source) >= 3
  /\ name_sub_regex(source[1])
  /\ name_sub_regex(source[2])
  /\ provider_sub_regex(source[3])
  /\ (Len(source) = 3 \/ (Len(source) >= 5 /\ source[4] = ""))

GITHUB_DOWNLOAD_URL_RE(url) ==
  /\ Len(url) >= 9
  /\ url[1] = "https:" /\ url[2] = "" /\ url[3] # ""
  /\ url[4] = "repos" /\ url[5] # "" /\ url[6] # ""
  /\ url[7] = "tarball" /\ url[8] # ""

\* Mutant: the lookup keeps the version declared in the configuration.
get_source_from_registry_declared_version(source, version, response) ==
  IF Len(source) # 3
  THEN [raised |-> "ValueError", code |-> 0, get |-> FALSE,
        source |-> source, version |-> version]
  ELSE IF response.status_code = 204 /\ GITHUB_DOWNLOAD_URL_RE(response.header)
  THEN [raised |-> "none", code |-> 0, get |-> TRUE,
        source |-> <<"https:", "", "github.com", response.header[5], response.header[6], ".git">>,
        version |-> version]
  ELSE [raised |-> "SystemExit", code |-> 1, get |-> TRUE,
        source |-> source, version |-> version]

\* The outcome of get_source_from_registry: the requests.get is issued only
\* when the split gives exactly three segments (the unpacking raises
\* ValueError otherwise); sys.exit(1) on any response that is not a 204 with
\* a matching header.
get_source_from_registry(source, version, response) ==
  IF Len(source) # 3
  THEN [raised |-> "ValueError", code |-> 0, get |-> FALSE,
        source |-> source, version |-> version]
  ELSE IF response.status_code = 204 /\ GITHUB_DOWNLOAD_URL_RE(response.header)
  THEN [raised |-> "none", code |-> 0, get |-> TRUE,
        source |-> <<"https:", "", "github.com", response.header[5], response.header[6], ".git">>,
        version |-> response.header[8]]
  ELSE [raised |-> "SystemExit", code |-> 1, get |-> TRUE,
        source |-> source, version |-> version]

\* 'https://{}@github.com/...'.format(token): the host segment with userinfo.
AtGithub(token) == IF token = "tkn" THEN "tkn@github.com" ELSE "@github.com"
GithubHosts == {"github.com", "api.github.com", "tkn@github.com", "@github.com"}

\* re.match('.*github.com/(.*)/(.*)\.git'): the pattern is not anchored to
\* the host, so any segment that ends in github.com and is followed by at
\* least two more segments matches; the leading .* is greedy, so the last
\* such segment is taken and everything before it is dropped.
add_github_token(url, token) ==
  LET hits == IF Len(url) >= 4 /\ url[Len(url)] = ".git"
              THEN {p \in 1..(Len(url) - 3) : url[p] \in GithubHosts}
              ELSE {}
  IN IF hits # {}
     THEN LET p == CHOOSE q \in hits : \A r \in hits : r <= q
          IN <<"https:", "", AtGithub(token)>> \o SubSeq(url, p + 1, Len(url))
     ELSE url

\* Mutant: the listing is used whatever its exit status.
has_git_tag_ignores_status(dir, tag, returncode) ==
  LET tags == IF dir.kind # "absent" THEN dir.tags ELSE {}
  IN tag \in tags

\* has_git_tag(path, tag): dir.tags are the names that
\* `git tag --points-at=HEAD` lists in `path`, `returncode` its status.
has_git_tag(dir, tag, returncode) ==
  LET tags == IF dir.kind # "absent" /\ returncode = 0 THEN dir.tags ELSE {}
  IN tag \in tags

num_worker == IF "jobs" \in DOMAIN config THEN config["jobs"] ELSE 4

\* The loop variable i of update_module when the n-th entry (0-based, inline
\* entries first) is imported: enumerate(patches) and then
\* enumerate(patches_file, start=i+1), i being 0 before the first loop.
enumerate_index(patches, n) ==
  LET m == Len(patches)
      i == IF m = 0 THEN 0 ELSE m - 1
  IN IF n < m THEN n ELSE (i + 1) + (n - m)

\* Mutant: the file is handed to quilt without the existence check.
import_patch_no_exists_check(series, name, file_path, content, status) ==
  IF file_path # "" /\ content # ""
  THEN [raised |-> "ValueError", ran |-> FALSE, series |-> series]
  ELSE IF file_path = "" /\ content = ""
  THEN [raised |-> "ValueError", ran |-> FALSE, series |-> series]
  ELSE IF status # 0 \/ (file_path # "" /\ file_path \notin ExistingFiles)
  THEN [raised |-> "SystemError", ran |-> TRUE, series |-> series]
  ELSE [raised |-> "none", ran |-> TRUE, series |-> Append(series, name)]

\* Mutant: no check of the arguments; the content wins over the file and a
\* call with neither imports an empty patch.
import_patch_no_argument_check(series, name, file_path, content, status) ==
  IF content = "" /\ file_path # "" /\ file_path \notin ExistingFiles
  THEN [raised |-> "ValueError", ran |-> FALSE, series |-> series]
  ELSE IF status # 0
  THEN [raised |-> "SystemError", ran |-> TRUE, series |-> series]
  ELSE [raised |-> "none", ran |-> TRUE, series |-> Append(series, name)]

\* Patch.import_patch on the series `series`; None is the empty string.
\* `status` is the exit status quilt import would give.
\* Mutant: the status of quilt import is not looked at.
import_patch_ignores_status(series, name, file_path, content, status) ==
  IF file_path # "" /\ content # ""
  THEN [raised |-> "ValueError", ran |-> FALSE, series |-> series]
  ELSE IF file_path # "" /\ file_path \notin ExistingFiles
  THEN [raised |-> "ValueError", ran |-> FALSE, series |-> series]
  ELSE IF file_path = "" /\ content = ""
  THEN [raised |-> "ValueError", ran |-> FALSE, series |-> series]
  ELSE IF status # 0
  THEN [raised |-> "none", ran |-> TRUE, series |-> series]
  ELSE [raised |-> "none", ran |-> TRUE, series |-> Append(series, name)]

import_patch(series, name, file_path, content, status) ==
  IF file_path # "" /\ content # ""
  THEN [raised |-> "ValueError", ran |-> FALSE, series |-> series]
  ELSE IF file_path # "" /\ file_path \notin ExistingFiles
  THEN [raised |-> "ValueError", ran |-> FALSE, series |-> series]
  ELSE IF file_path = "" /\ content = ""
  THEN [raised |-> "ValueError", ran |-> FALSE, series |-> series]
  ELSE IF status # 0
  THEN [raised |-> "SystemError", ran |-> TRUE, series |-> series]
  ELSE [raised |-> "none", ran |-> TRUE, series |-> Append(series, name)]

\* Remote tags pointing at the head of the ref that is cloned.
RemoteTags(version) == IF version \in {Version, "v1.0.0"} THEN {version} ELSE {}

Terminal == {"returned", "raised", "exited"}

\* Mutant: a task blocked in an external call gives its worker back.
RunningUnblocked == {m \in Modules : task[m].pc \notin Terminal \cup {"queued", "blocked"}}

\* The tasks a worker thread is executing, blocked in a call or not.
Running == {m \in Modules : task[m].pc \notin Terminal \cup {"queued"}}
NoDir == [kind |-> "absent", tags |-> {}, series |-> <<>>, applied |-> 0, src |-> <<>>]

\* source = cwd / source (pathlib): an absolute source replaces cwd, a "."
\* segment is dropped, a ".." segment is kept.
resolve_local(source) ==
  IF source[1] = "" THEN source
  ELSE <<"cwd">> \o SelectSeq(source, LAMBDA seg : seg # ".")

\* Mutant: the copy is laid over what the target held (no rmtree).
copytree_over(target, source) ==
  [kind |-> "copy", tags |-> target.tags, series |-> target.series,
   applied |-> target.applied, src |-> source]

\* The target after shutil.rmtree(target) and shutil.copytree(source, target):
\* the tree of `source` and nothing of what `target` held.
rmtree_copytree(target, source) ==
  [kind |-> "copy", tags |-> {}, series |-> <<>>, applied |-> 0, src |-> source]

\* Mutant: git clone into the tree the target held (no rmtree).
clone_over(target, origin, version) ==
  [kind |-> "clone", tags |-> RemoteTags(version), series |-> target.series,
   applied |-> target.applied, src |-> origin]

\* The target after shutil.rmtree(target) and a successful
\* git clone --branch=version origin target.
rmtree_clone(target, origin, version) ==
  [kind |-> "clone", tags |-> RemoteTags(version), series |-> <<>>,
   applied |-> 0, src |-> origin]

\* target = cwd / name: the path of module m's directory under cwd, as
\* segments. The name is the module's key in the Terrafile; a setup that
\* does not spell the names out uses one distinct segment per module.
target(m) == IF "name" \in DOMAIN conf[m] THEN conf[m].name ELSE <<m>>

\* The target of module m lies strictly below the target of module k.
Inside(k, m) ==
  /\ Len(target(k)) < Len(target(m))
  /\ SubSeq(target(m), 1, Len(target(k))) = target(k)

\* A directory made by mkdir: no checkout in it.
PlainDir == [kind |-> "dir", tags |-> {}, series |-> <<>>, applied |-> 0, src |-> <<>>]

\* The targets after shutil.rmtree(target(m), ignore_errors=True) removed
\* the tree: the target and every target below it are gone. fs[k] describes
\* the directory at target(k) without what lies at targets below it.
rmtree(f, m) ==
  [k \in DOMAIN f |-> IF k = m \/ Inside(m, k) THEN NoDir ELSE f[k]]

\* Repo.mkparentpath (and the os.makedirs of shutil.copytree): every
\* missing directory above target(m) is created.
mkparentpath(f, m) ==
  [k \in DOMAIN f |-> IF Inside(k, m) /\ f[k].kind = "absent" THEN PlainDir ELSE f[k]]

\* Mutant: a thread per submitted task.
IdleWorkerUnbounded == TRUE

\* ThreadPoolExecutor(max_workers=self.num_worker): a work item is taken from
\* the FIFO queue by an idle worker.
IdleWorker == Cardinality(Running) < num_worker

\* ------------------------------------------------------------------ actions
Finish(m, pc, raised, code) ==
  task' = [task EXCEPT ![m].pc = pc, ![m].raised = raised, ![m].code = code,
                       ![m].at = IF raised = "none" THEN "" ELSE task[m].pc]

\* A worker dequeues update_module(cwd, m, conf[m]) and runs it up to its
\* first blocking call.
Start(m) ==
  /\ task[m].pc = "queued"
  /\ \A k \in Modules : k < m => task[k].pc # "queued"
  /\ IdleWorker
  /\ task' = [task EXCEPT ![m].pc =
       IF startswith_local(conf[m].source) THEN "copy"
       ELSE IF is_valid_registry_source(conf[m].source) THEN "registry"
       ELSE "clone"]
  /\ UNCHANGED <<config, conf, environ, fs, cmds, mainPc, errors, yielded, exc, exitCode>>

\* shutil.rmtree(target, ignore_errors=True); shutil.copytree(source, target):
\* copytree raises when the target is still there or the source is unreadable.
Copy(m) ==
  /\ task[m].pc = "copy"
  /\ \E rmtree_error \in BOOLEAN, source_error \in BOOLEAN :
       LET after == IF rmtree_error THEN fs ELSE rmtree(fs, m)
       IN IF after[m].kind # "absent" \/ source_error
          THEN /\ fs' = after
               /\ Finish(m, "raised", "OSError", 0)
          ELSE /\ fs' = [mkparentpath(after, m) EXCEPT
                            ![m] = rmtree_copytree(fs[m], resolve_local(conf[m].source))]
               /\ Finish(m, "returned", "none", 0)
  /\ UNCHANGED <<config, conf, environ, cmds, mainPc, errors, yielded, exc, exitCode>>

\* source, version = get_source_from_registry(source, version)
RegistryLookup(m) ==
  /\ task[m].pc = "registry"
  /\ \E response \in Responses :
       LET r == get_source_from_registry(task[m].source, task[m].version, response)
       IN /\ cmds' = [cmds EXCEPT ![m] =
                        IF r.get THEN Append(@, [cmd |-> "get", arg |-> task[m].source,
                                                 ref |-> task[m].version])
                        ELSE @]
          /\ task' = [task EXCEPT ![m] =
               [@ EXCEPT !.pc = IF r.raised = "none" THEN "clone"
                                ELSE IF r.raised = "SystemExit" THEN "exited" ELSE "raised",
                         !.source = r.source, !.version = r.version,
                         !.raised = r.raised, !.code = r.code,
                         !.at = IF r.raised = "none" THEN "" ELSE "registry"]]
  /\ UNCHANGED <<config, conf, environ, fs, mainPc, errors, yielded, exc, exitCode>>

\* Lines 189-199 and Repo.clone: token, rmtree, clone, sys.exit on failure.
Clone(m) ==
  /\ task[m].pc = "clone"
  /\ \E rmtree_error \in BOOLEAN, returncode \in CloneStatuses :
       LET source == IF "GITHUB_TOKEN" \in DOMAIN environ
                     THEN add_github_token(task[m].source, environ["GITHUB_TOKEN"])
                     ELSE task[m].source
           \* rmtree(target, ignore_errors=True): a tree it cannot remove stays
           after == IF rmtree_error THEN fs ELSE rmtree(fs, m)
           npatch == Len(conf[m].patches) + Len(conf[m].patches_file)
       IN IF after[m].kind # "absent"
          THEN \* Repo.clone: "Path already exists, please delete it first"
               /\ fs' = after
               /\ cmds' = cmds
               /\ Finish(m, "raised", "SystemError", 0)
          ELSE /\ cmds' = [cmds EXCEPT ![m] =
                     Append(@, [cmd |-> "clone", arg |-> source, ref |-> task[m].version])]
               /\ IF returncode # 0
                  THEN /\ fs' = mkparentpath(after, m)
                       /\ Finish(m, "exited", "SystemExit", returncode)
                  ELSE /\ fs' = [mkparentpath(after, m) EXCEPT
                                    ![m] = rmtree_clone(fs[m], source, task[m].version)]
                       /\ task' = [task EXCEPT ![m].pc =
                             IF npatch > 0 THEN "import" ELSE "returned",
                             ![m].source = source]
  /\ UNCHANGED <<config, conf, environ, mainPc, errors, yielded, exc, exitCode>>

\* One iteration of the two import loops of update_module.
Import(m) ==
  /\ task[m].pc = "import"
  /\ \E status \in QuiltStatuses :
       LET n == task[m].n
           inline == n < Len(conf[m].patches)
           name == PatchName(enumerate_index(conf[m].patches, n))
           r == import_patch(fs[m].series, name,
                             IF inline THEN "" ELSE conf[m].patches_file[n - Len(conf[m].patches) + 1],
                             IF inline THEN conf[m].patches[n + 1] ELSE "",
                             status)
           last == n + 1 = Len(conf[m].patches) + Len(conf[m].patches_file)
       IN IF r.ran /\ fs[m].kind = "absent"
          THEN \* Popen(cwd=self.path) on a directory that is gone
               /\ cmds' = cmds
               /\ fs' = fs
               /\ task' = [task EXCEPT ![m] =
                    [@ EXCEPT !.pc = "raised", !.raised = "FileNotFoundError",
                              !.at = "import"]]
          ELSE
          /\ cmds' = [cmds EXCEPT ![m] =
                        IF r.ran THEN Append(@, [cmd |-> "import", arg |-> name, ref |-> ""])
                        ELSE @]
          /\ fs' = [fs EXCEPT ![m].series = r.series]
          /\ task' = [task EXCEPT ![m] =
               [@ EXCEPT !.pc = IF r.raised # "none" THEN "raised"
                                ELSE IF last THEN "push" ELSE "import",
                         !.n = IF r.raised = "none" THEN n + 1 ELSE n,
                         !.raised = r.raised,
                         !.at = IF r.raised = "none" THEN "" ELSE "import"]]
  /\ UNCHANGED <<config, conf, environ, mainPc, errors, yielded, exc, exitCode>>

\* status = quilt.push_all(); raise SystemError on a non-zero status.
Push(m) ==
  /\ task[m].pc = "push"
  /\ \E status \in QuiltStatuses :
       IF fs[m].kind = "absent"
       THEN \* Popen(cwd=self.path) on a directory that is gone
            /\ cmds' = cmds
            /\ fs' = fs
            /\ Finish(m, "raised", "FileNotFoundError", 0)
       ELSE
       /\ cmds' = [cmds EXCEPT ![m] = Append(@, [cmd |-> "push", arg |-> "", ref |-> ""])]
       /\ IF status # 0
          THEN /\ fs' = fs
               /\ Finish(m, "raised", "SystemError", 0)
          ELSE /\ fs' = [fs EXCEPT ![m].applied = Len(fs[m].series)]
               /\ Finish(m, "returned", "none", 0)
  /\ UNCHANGED <<config, conf, environ, mainPc, errors, yielded, exc, exitCode>>

\* Mutant: the flag is assigned from the last future instead of accumulated.
ErrorsAfterLastWins(m) == task[m].pc = "raised"

\* The `errors` flag after the loop body has handled the future of m.
ErrorsAfter(m) == errors \/ task[m].pc = "raised"

\* Mutant: shutdown(wait=False).
shutdown_nowait == TRUE

\* executor.shutdown(wait=True) of ThreadPoolExecutor.__exit__ returns.
shutdown_wait == \A m \in Modules : task[m].pc \in Terminal

\* How update_repos ends: SystemExit of a task passes through, else
\* SystemError("Module update error!") when errors, else `return True`.
update_repos_result ==
  IF exc # <<>> THEN "SystemExit" ELSE IF errors THEN "SystemError" ELSE "True"

\* The process exit status main() gives for that end of update_repos.
main_status ==
  IF update_repos_result = "SystemExit" THEN exc
  ELSE IF update_repos_result = "SystemError" THEN <<1>> ELSE <<0>>

\* One iteration of `for future in as_completed(future_to_update)`:
\* future.result() re-raises what the task raised; `except Exception` does
\* not catch SystemExit, which leaves the loop.
Yield(m) ==
  /\ mainPc = "as_completed"
  /\ m \notin yielded
  /\ task[m].pc \in Terminal
  /\ yielded' = yielded \cup {m}
  /\ errors' = ErrorsAfter(m)
  /\ exc' = IF task[m].pc = "exited" THEN <<task[m].code>> ELSE exc
  /\ mainPc' = IF task[m].pc = "exited" \/ yielded' = Modules
               THEN "shutdown" ELSE "as_completed"
  /\ UNCHANGED <<config, conf, environ, fs, task, cmds, exitCode>>

\* Leaving the `with` block: executor.shutdown(wait=True); then lines 156-158
\* and main(): SystemExit passes `except Exception`, SystemError becomes
\* sys.exit(1), a normal return ends the process with status 0.
ExecutorExit ==
  /\ mainPc = "shutdown"
  /\ shutdown_wait
  /\ mainPc' = "exited"
  /\ exitCode' = main_status
  /\ UNCHANGED <<config, conf, environ, fs, task, cmds, errors, yielded, exc>>

Next ==
  \/ \E m \in Modules : Start(m)
  \/ \E m \in Modules : Copy(m)
  \/ \E m \in Modules : RegistryLookup(m)
  \/ \E m \in Modules : Clone(m)
  \/ \E m \in Modules : Import(m)
  \/ \E m \in Modules : Push(m)
  \/ \E m \in Modules : Yield(m)
  \/ ExecutorExit

\* ------------------------------------------------------------------ initial states
NoSetup == [k \in {} |-> 0]
Setups == {NoSetup} \cup {[k \in {"jobs"} |-> j] : j \in 1..MaxJobs}
Environs == {NoSetup, [k \in {"GITHUB_TOKEN"} |-> "tkn"]}

ModuleConf(source, version, patches, patches_file) ==
  [source |-> source, version |-> version, patches |-> patches, patches_file |-> patches_file]

\* Module setups of the orchestration runs.
OrchConfs ==
  { ModuleConf(SrcLocal, Version, <<>>, <<>>),
    ModuleConf(SrcRegistry, Version, <<>>, <<>>),
    ModuleConf(SrcDirect, Version, <<"A">>, <<>>) }

\* Module setups of the single-task runs.
TaskConfs ==
  { ModuleConf(s, v, p, f) :
      s \in {SrcLocal, SrcParent, SrcAbs, SrcRegistry, SrcRegistrySub, SrcDirect, SrcOther,
            SrcMirror},
      v \in {Version, "main"},
      p \in SeqsUpTo(PatchTexts, MaxInline),
      f \in SeqsUpTo(PatchFiles, MaxFile) }

OldDirs ==
  { NoDir } \cup
  { [kind |-> "old", tags |-> t, series |-> <<>>, applied |-> 0, src |-> <<"old">>] :
      t \in {{}, {Version}, {Version, OtherTag}} }

InitTask(c) ==
  [pc |-> "queued", source |-> c.source, version |-> c.version, n |-> 0,
   raised |-> "none", code |-> 0, at |-> ""]

InitRest ==
  /\ task = [m \in Modules |-> InitTask(conf[m])]
  /\ cmds = [m \in Modules |-> <<>>]
  /\ mainPc = "as_completed"
  /\ errors = FALSE
  /\ yielded = {}
  /\ exc = <<>>
  /\ exitCode = <<>>

Init ==
  /\ config \in Setups
  /\ conf \in [1..NumModules -> OrchConfs]
  /\ environ = NoSetup
  /\ fs = [m \in Modules |-> NoDir]
  /\ InitRest

Spec == Init /\ [][Next]_vars

TaskInit ==
  /\ config = NoSetup
  /\ conf \in [{1} -> TaskConfs]
  /\ environ \in Environs
  /\ fs \in [Modules -> OldDirs]
  /\ InitRest

TaskSpec == TaskInit /\ [][Next]_vars

\* ------------------------------------------------------------------ fair runs
\* One module of each kind of source, repeated in that order.
FairConf ==
  [m \in 1..NumModules |->
     IF m % 3 = 1 THEN ModuleConf(SrcDirect, Version, <<"A">>, <<>>)
     ELSE IF m % 3 = 2 THEN ModuleConf(SrcRegistry, Version, <<>>, <<>>)
     ELSE ModuleConf(SrcLocal, Version, <<>>, <<>>)]

FairInit == Init /\ conf = FairConf

\* Every external call returns and the threads are scheduled: some enabled
\* step is eventually taken.
FairSpec == FairInit /\ [][Next]_vars /\ WF_vars(Next)

\* ------------------------------------------------------------------ calls that never return
\* requests.get and Popen.communicate are called without a timeout: the
\* external call a started task is about to make may never return. The
\* task then stays in its worker thread for ever.
Hang(m) ==
  /\ task[m].pc \in {"copy", "registry", "clone", "import", "push"}
  /\ task' = [task EXCEPT ![m].pc = "blocked", ![m].at = task[m].pc]
  /\ UNCHANGED <<config, conf, environ, fs, cmds, mainPc, errors, yielded, exc, exitCode>>

BlockNext ==
  \/ Next
  \/ \E m \in Modules : Hang(m)

\* Every call that does return is followed by the next step (weak fairness
\* of Next); nothing forces a call to hang.
BlockSpec == FairInit /\ [][BlockNext]_vars /\ WF_vars(Next)

\* ------------------------------------------------------------------ repeated runs
\* The program is run again after a run has ended: a new process with the
\* same Terrafile, environment and remotes, on the directories the last run
\* left. exitCode keeps the status of the last run that ended.
Rerun ==
  /\ mainPc = "exited"
  /\ task' = [m \in Modules |-> InitTask(conf[m])]
  /\ cmds' = [m \in Modules |-> <<>>]
  /\ mainPc' = "as_completed"
  /\ errors' = FALSE
  /\ yielded' = {}
  /\ exc' = <<>>
  /\ UNCHANGED <<config, conf, environ, fs, exitCode>>

RerunNext ==
  \/ Next
  \/ Rerun

RerunInit ==
  /\ config = [k \in {"jobs"} |-> MaxJobs]
  /\ conf = FairConf
  /\ environ = NoSetup
  /\ \E d \in OldDirs : fs = [m \in Modules |-> d]
  /\ InitRest

RerunSpec == RerunInit /\ [][RerunNext]_vars

\* ------------------------------------------------------------------ nested targets
\* Module names as paths: 'a', 'a/b', then one letter per further module
\* (the submission order is the sorted order of the names).
Letters == <<"c", "d", "e", "f">>
ModuleName(m) ==
  IF m = 1 THEN <<"a">> ELSE IF m = 2 THEN <<"a", "b">> ELSE <<Letters[m - 2]>>

NamedConf(c, name) ==
  [source |-> c.source, version |-> c.version, patches |-> c.patches,
   patches_file |-> c.patches_file, name |-> name]

PathInit ==
  /\ config = NoSetup
  /\ conf = [m \in 1..NumModules |-> NamedConf(FairConf[m], ModuleName(m))]
  /\ environ = NoSetup
  /\ \E d \in OldDirs : fs = [m \in Modules |-> d]
  /\ InitRest

PathSpec == PathInit /\ [][Next]_vars

\* ------------------------------------------------------------------ direct Patch calls
\* quilt = Patch(target, root) on a fresh clone, then any sequence of
\* quilt.import_patch(name, file_path, content) and quilt.push_all() calls.
\* task[1] records the last call and what it raised.
PatchCall(call, name, file_path, content, raised) ==
  [pc |-> "patch", call |-> call, name |-> name, file_path |-> file_path,
   content |-> content, raised |-> raised]

PatchInit ==
  /\ config = NoSetup
  /\ conf = [m \in {1} |-> ModuleConf(SrcDirect, Version, <<>>, <<>>)]
  /\ environ = NoSetup
  /\ fs = [m \in {1} |-> rmtree_clone(NoDir, SrcDirect, Version)]
  /\ task = [m \in {1} |-> PatchCall("none", PatchName(0), "", "", "none")]
  /\ cmds = [m \in {1} |-> <<>>]
  /\ mainPc = "patch"
  /\ errors = FALSE
  /\ yielded = {}
  /\ exc = <<>>
  /\ exitCode = <<>>

ImportPatchCall(m) ==
  /\ Len(cmds[m]) < MaxSeries
  /\ \E i \in 0..(MaxSeries - 1), file_path \in {""} \cup PatchFiles,
        content \in PatchTexts, status \in QuiltStatuses :
       LET r == import_patch(fs[m].series, PatchName(i), file_path, content, status)
       IN /\ cmds' = [cmds EXCEPT ![m] =
                        IF r.ran THEN Append(@, [cmd |-> "import", arg |-> PatchName(i), ref |-> ""])
                        ELSE @]
          /\ fs' = [fs EXCEPT ![m].series = r.series]
          /\ task' = [task EXCEPT ![m] =
                        PatchCall("import_patch", PatchName(i), file_path, content, r.raised)]
  /\ UNCHANGED <<config, conf, environ, mainPc, errors, yielded, exc, exitCode>>

PushAllCall(m) ==
  /\ Len(cmds[m]) < MaxSeries
  /\ \E status \in QuiltStatuses :
       /\ cmds' = [cmds EXCEPT ![m] = Append(@, [cmd |-> "push", arg |-> "", ref |-> ""])]
       /\ fs' = [fs EXCEPT ![m].applied = IF status = 0 THEN Len(fs[m].series) ELSE @]
       /\ task' = [task EXCEPT ![m] = PatchCall("push_all", PatchName(0), "", "", "none")]
  /\ UNCHANGED <<config, conf, environ, mainPc, errors, yielded, exc, exitCode>>

PatchNext ==
  \/ \E m \in Modules : ImportPatchCall(m)
  \/ \E m \in Modules : PushAllCall(m)

PatchSpec == PatchInit /\ [][PatchNext]_vars

\* ------------------------------------------------------------------ direct has_git_tag calls
\* has_git_tag(path, tag) called on a path that is missing or holds a
\* checkout with any set of tags at HEAD. task[1] records the last call.
TagNames == {OtherTag, Version, "v1.0.0", "main"}
TagDirs ==
  { NoDir } \cup
  { [kind |-> "old", tags |-> t, series |-> <<>>, applied |-> 0, src |-> <<"old">>] :
      t \in SUBSET TagNames }
TagStatuses == {0, 128}

TagCall(tag, returncode, result) ==
  [pc |-> "has_git_tag", tag |-> tag, returncode |-> returncode, result |-> result]

TagInit ==
  /\ config = NoSetup
  /\ conf = [m \in {1} |-> ModuleConf(SrcDirect, Version, <<>>, <<>>)]
  /\ environ = NoSetup
  /\ fs \in [{1} -> TagDirs]
  /\ task = [m \in {1} |-> [pc |-> "none"]]
  /\ cmds = [m \in {1} |-> <<>>]
  /\ mainPc = "has_git_tag"
  /\ errors = FALSE
  /\ yielded = {}
  /\ exc = <<>>
  /\ exitCode = <<>>

HasGitTagCall(m) ==
  /\ \E tag \in TagNames, returncode \in TagStatuses :
       task' = [task EXCEPT ![m] = TagCall(tag, returncode, has_git_tag(fs[m], tag, returncode))]
  /\ UNCHANGED <<config, conf, environ, fs, cmds, mainPc, errors, yielded, exc, exitCode>>

TagNext == \E m \in Modules : HasGitTagCall(m)

TagSpec == TagInit /\ [][TagNext]_vars

\* ------------------------------------------------------------------ vocabulary of the claims
IsGet(c) == c.cmd = "get"
IsClone(c) == c.cmd = "clone"
IsImport(c) == c.cmd = "import"
IsPush(c) == c.cmd = "push"

Gets(m) == SelectSeq(cmds[m], IsGet)
Clones(m) == SelectSeq(cmds[m], IsClone)
Imports(m) == SelectSeq(cmds[m], IsImport)
Pushes(m) == SelectSeq(cmds[m], IsPush)

CloneFailed(m) == task[m].pc = "exited" /\ task[m].at = "clone"
RegistryFailed(m) == task[m].pc = "exited" /\ task[m].at = "registry"
TaskFailed(m) == task[m].pc \in {"raised", "exited"}
ConfiguredWorkers == IF "jobs" \in DOMAIN config THEN config["jobs"] ELSE 4

\* The entry the import loop of m stands at is a file reference to a file
\* that does not exist, and the task ended there.
EndedAtMissingFile(m) ==
  /\ task[m].pc = "raised" /\ task[m].at = "import"
  /\ task[m].n >= Len(conf[m].patches)
  /\ conf[m].patches_file[task[m].n - Len(conf[m].patches) + 1] \notin ExistingFiles

MissingFileRaised(m) == EndedAtMissingFile(m) /\ task[m].raised = "ValueError"

BothOrNeither(file_path, content) ==
  (file_path # "" /\ content # "") \/ (file_path = "" /\ content = "")

\* ------------------------------------------------------------------ claims
\* C1 (as stated): a task that is about to fetch a non-local module whose
\* target exists with the requested version among the tags at HEAD issues no
\* clone, leaves the target alone and returns (SkippedSatisfied).
C1_SatisfiedCheckoutIsSkipped ==
  [][\A m \in Modules :
       (task[m].pc = "clone" /\ has_git_tag(fs[m], task[m].version, 0) /\ task'[m] # task[m])
       => (cmds'[m] = cmds[m] /\ fs'[m] = fs[m] /\ task'[m].pc = "returned")]_vars

\* C2 (as stated): once the clone of some module has returned a non-zero
\* status, no queued task is started and no task issues a further command.
C2_CloneFailureAbortsRun ==
  [][(\E m \in Modules : CloneFailed(m))
       => (/\ cmds' = cmds
           /\ \A k \in Modules : task[k].pc = "queued" => task'[k].pc = "queued")]_vars

\* C3 (as stated): once the registry lookup of some module has failed, no
\* clone is attempted any more, for any module of the run.
C3_RegistryFailureStopsClones ==
  [][(\E m \in Modules : RegistryFailed(m))
       => \A k \in Modules : Len(SelectSeq(cmds'[k], IsClone)) = Len(Clones(k))]_vars

\* C4: when the run has ended, update_repos has ended in failure (and the
\* exit status is non-zero) if and only if at least one module task failed.
C4_FailureIffSomeTaskFailed ==
  mainPc = "exited" =>
    /\ (update_repos_result # "True") <=> (\E m \in Modules : TaskFailed(m))
    /\ (exitCode # <<0>>) <=> (\E m \in Modules : TaskFailed(m))

\* C4 witness: several modules, exactly one failed in quilt push, the others
\* returned, and the run ended in failure.
C4_OneOfManyFailsInPush ==
  /\ mainPc = "exited" /\ exitCode = <<1>> /\ Cardinality(Modules) >= 2
  /\ \E m \in Modules :
       /\ task[m].pc = "raised" /\ task[m].at = "push"
       /\ \A k \in Modules \ {m} : task[k].pc = "returned"

\* C5: the run's result exists only when every task is terminal, and once a
\* task has raised, every task still reaches its terminal outcome and the
\* result is eventually reached.
C5_FailureCancelsNothing ==
  /\ [](mainPc = "exited" => \A m \in 1..NumModules : task[m].pc \in Terminal)
  /\ ((\E m \in 1..NumModules : task[m].pc = "raised")
        ~> (mainPc = "exited" /\ \A k \in 1..NumModules : task[k].pc \in Terminal))

\* C5 witness: one worker, the first task failed in quilt push, every later
\* task (started after that failure) returned, and the run has ended.
C5_LaterTasksRanAfterFailure ==
  /\ mainPc = "exited" /\ "jobs" \in DOMAIN config /\ config["jobs"] = 1
  /\ task[1].pc = "raised" /\ task[1].at = "push"
  /\ Cardinality(Modules) >= 2
  /\ \A k \in Modules \ {1} : task[k].pc = "returned"

\* C6: at most W tasks are executing, W the configured jobs or 4, hence at
\* most W clones are in progress.
C6_AtMostWTasksExecuting ==
  /\ Cardinality(Running) <= ConfiguredWorkers
  /\ Cardinality({m \in Modules : task[m].pc = "clone"}) <= ConfiguredWorkers

\* C6 witness: jobs = 2, two tasks in their clone and a third still queued.
C6_PoolFull ==
  /\ "jobs" \in DOMAIN config /\ config["jobs"] = 2
  /\ Cardinality({m \in Modules : task[m].pc = "clone"}) = 2
  /\ \E m \in Modules : task[m].pc = "queued"

\* C7 (as stated): the j-th patch handed to quilt import is patch_<j-1>.patch.
C7_IndicesContiguousFromZero ==
  \A m \in Modules : \A j \in 1..Len(Imports(m)) : Imports(m)[j].arg = PatchName(j - 1)

C9_BothOrNeitherRaisesWithoutQuilt ==
  [][\A m \in Modules :
       (task'[m].call = "import_patch" /\ BothOrNeither(task'[m].file_path, task'[m].content))
       => (task'[m].raised = "ValueError" /\ cmds' = cmds /\ fs' = fs)]_vars

\* C9 witness: a call with both arguments raised on a non-empty series.
C9_BothRaisedOnStagedSeries ==
  /\ task[1].call = "import_patch"
  /\ task[1].file_path = "ok.patch" /\ task[1].content = "A"
  /\ task[1].raised = "ValueError"
  /\ Len(fs[1].series) >= 1

\* C10 (as stated): at the end of the run, if a clone failed the exit status
\* is that of a failed clone; if no clone and no lookup failed but a task
\* failed it is 1; and it is 0 only when every task returned.
C10_ExitStatusOfFailedClone ==
  mainPc = "exited" =>
    /\ (\E m \in Modules : CloneFailed(m))
         => (\E m \in Modules : CloneFailed(m) /\ exitCode = <<task[m].code>>)
    /\ ((\A m \in Modules : ~CloneFailed(m) /\ ~RegistryFailed(m))
          /\ (\E m \in Modules : TaskFailed(m))) => exitCode = <<1>>
    /\ exitCode = <<0>> => \A m \in Modules : task[m].pc = "returned"

\* C11: a task of a module with a local source issues no external command,
\* and once it has returned the target is the tree of the resolved source
\* directory and nothing else, whatever the target held and whatever
\* version or patches the module declares.
C11_LocalSourceIsCopiedOnly ==
  \A m \in Modules : startswith_local(conf[m].source) =>
    /\ cmds[m] = <<>>
    /\ task[m].pc \notin {"registry", "clone", "import", "push", "exited"}
    /\ task[m].pc = "returned" =>
         fs[m] = [kind |-> "copy", tags |-> {}, series |-> <<>>, applied |-> 0,
                  src |-> IF conf[m].source = SrcLocal THEN <<"cwd", "mod">>
                          ELSE IF conf[m].source = SrcParent THEN <<"cwd", "..", "mod">>
                          ELSE <<"", "opt", "mod">>]

\* C11 witness: a local module that declares patches has been copied.
C11_LocalWithPatchesCopied ==
  \E m \in Modules :
    /\ conf[m].source = SrcParent /\ conf[m].patches # <<>> /\ conf[m].patches_file # <<>>
    /\ task[m].pc = "returned" /\ fs[m].kind = "copy"

\* The git URL and ref that GoodHeader resolves to.
ResolvedUrl == <<"https:", "", "github.com", "u", "r", ".git">>
ResolvedUrlWithToken == <<"https:", "", "tkn@github.com", "u", "r", ".git">>
ResolvedRef == "v1.0.0"
RegistryResolved(m) ==
  /\ is_valid_registry_source(conf[m].source)
  /\ task[m].pc \in {"clone", "import", "push", "returned"} \/ Clones(m) # <<>>

\* C12 as stated: after a 204 with a matching header the clone of a registry
\* module is invoked on https://github.com/<user>/<repo>.git itself,
\* restricted to <ref>.
C12_CloneOnResolvedUrlAtRef ==
  \A m \in Modules : RegistryResolved(m) =>
    /\ Gets(m) # <<>>
    /\ task[m].pc = "clone" => task[m].source = ResolvedUrl /\ task[m].version = ResolvedRef
    /\ \A i \in DOMAIN Clones(m) :
         Clones(m)[i].arg = ResolvedUrl /\ Clones(m)[i].ref = ResolvedRef

\* C12 amended: the working source and version after the lookup are the
\* resolved URL and <ref>; the clone is restricted to <ref>, never to the
\* declared version, and is invoked on the resolved URL, carrying the token
\* as userinfo when GITHUB_TOKEN is set.
C12_CloneOnResolvedUrlModuloTokenAtRef ==
  \A m \in Modules : RegistryResolved(m) =>
    /\ Gets(m) # <<>>
    /\ \A i \in DOMAIN Gets(m) : Gets(m)[i].ref = conf[m].version
    /\ task[m].pc = "clone" => task[m].source = ResolvedUrl /\ task[m].version = ResolvedRef
    /\ \A i \in DOMAIN Clones(m) :
         /\ Clones(m)[i].ref = ResolvedRef
         /\ Clones(m)[i].ref # conf[m].version
         /\ Clones(m)[i].arg = IF "GITHUB_TOKEN" \in DOMAIN environ
                             THEN ResolvedUrlWithToken ELSE ResolvedUrl

\* C12 witness: a registry module was resolved and cloned with a token set.
C12_RegistryModuleClonedWithToken ==
  \E m \in Modules :
    /\ is_valid_registry_source(conf[m].source)
    /\ "GITHUB_TOKEN" \in DOMAIN environ
    /\ Gets(m) # <<>> /\ Clones(m) # <<>>
    /\ task[m].pc = "returned"

\* C13: a namespace/name/provider//subdir source is a registry source and
\* is resolved as namespace/name/provider: its task issues the lookup for
\* the three leading segments and does not end on the suffix.
C13_SubdirSuffixIgnoredForResolution ==
  \A m \in Modules :
    (/\ conf[m].source = SrcRegistrySub
     /\ is_valid_registry_source(conf[m].source)
     /\ task[m].pc \notin {"queued", "registry"}) =>
      /\ Gets(m) # <<>>
      /\ Gets(m)[1].arg = SrcRegistry
      /\ task[m].raised # "ValueError"

\* A step of the task of module m.
StepOf(m) == task'[m] # task[m] \/ cmds'[m] # cmds[m]

\* C14: no task removes, creates or writes the target directory of another
\* module: the directory at a module's target changes only in a step of
\* that module's own task, also when one name is a path prefix of the
\* other ('a' and 'a/b'), under every interleaving.
C14_TargetChangesOnlyInOwnTask ==
  [][\A k \in Modules : fs'[k] # fs[k] => StepOf(k)]_vars

NumPatches(m) == Len(conf[m].patches) + Len(conf[m].patches_file)
Issued(m, IsCmd(_)) ==
  Len(SelectSeq(cmds'[m], IsCmd)) > Len(SelectSeq(cmds[m], IsCmd))

Blocked == {m \in 1..NumModules : task[m].pc = "blocked"}

\* C16: a task blocked for ever in an external call occupies one worker.
\* While fewer than W tasks are blocked, every task is eventually started
\* and ends (or is itself blocked); once W tasks are blocked, no pending
\* task is started any more.
C16_BlockedTaskHoldsOneWorker ==
  /\ [](Cardinality(Blocked) < num_worker) =>
       \A m \in 1..NumModules : <>(task[m].pc \in Terminal \cup {"blocked"})
  /\ [][Cardinality(Blocked) >= num_worker =>
          \A m \in 1..NumModules : task[m].pc = "queued" => task'[m].pc = "queued"]_vars
  /\ [](Cardinality({m \in 1..NumModules : task[m].pc \notin Terminal \cup {"queued"}})
         <= num_worker)

\* C16 witness: with two workers, one task is blocked and the two others
\* have been run to the end by the remaining worker.
C16_OthersEndedBesideBlockedTask ==
  /\ num_worker = 2
  /\ Cardinality(Blocked) = 1
  /\ \A m \in 1..NumModules : task[m].pc \in Terminal \cup {"blocked"}

TagCalled(m) == task[m].pc = "has_git_tag"

\* C17: has_git_tag(path, tag) is a boolean, true exactly when path is an
\* existing directory, the tag listing exited with status 0 and some listed
\* name equals tag; false for a missing path and for a non-zero status.
C17_TrueIffListedAtHead ==
  \A m \in Modules : TagCalled(m) =>
    /\ task[m].result \in BOOLEAN
    /\ task[m].result <=>
         (/\ fs[m].kind # "absent"
          /\ task[m].returncode = 0
          /\ \E t \in fs[m].tags : t = task[m].tag)
    /\ fs[m].kind = "absent" => task[m].result = FALSE
    /\ task[m].returncode # 0 => task[m].result = FALSE

\* C17 witness: a checkout with several tags at HEAD, the listing failed,
\* and the call for one of those tags returned false.
C17_FalseOnFailedListing ==
  \E m \in Modules :
    /\ TagCalled(m) /\ task[m].result = FALSE
    /\ task[m].returncode # 0
    /\ Cardinality(fs[m].tags) >= 2 /\ task[m].tag \in fs[m].tags

\* The URL of module m before credential injection.
UrlBeforeInjection(m) ==
  IF is_valid_registry_source(conf[m].source) THEN ResolvedUrl ELSE conf[m].source
IsGithubHttps(url) ==
  Len(url) = 6 /\ url[1] = "https:" /\ url[2] = "" /\ url[3] = "github.com" /\ url[6] = ".git"

\* C18: the clone URL is the module's URL unchanged when no token is set;
\* with a token, https://github.com/<user>/<repo>.git becomes the same
\* host, user and repo with the token as userinfo, a URL whose host is not
\* github.com stays unchanged, and injecting into the result again changes
\* nothing.
C18_OnlyGithubHttpsUrlsRewritten ==
  \A m \in Modules : \A i \in DOMAIN Clones(m) :
    LET url == UrlBeforeInjection(m)
        arg == Clones(m)[i].arg
    IN IF "GITHUB_TOKEN" \notin DOMAIN environ
       THEN arg = url
       ELSE /\ IsGithubHttps(url) =>
                 arg = <<"https:", "", "tkn@github.com", url[4], url[5], ".git">>
            /\ url[3] # "github.com" => arg = url
            /\ add_github_token(arg, environ["GITHUB_TOKEN"]) = arg

NoDuplicates(seq) == \A i, j \in DOMAIN seq : seq[i] = seq[j] => i = j

\* The checkout a returned task of a non-local module leaves, as the
\* configuration alone determines it.
SyncedOnce(m) ==
  /\ fs[m].kind = "clone"
  /\ fs[m].tags = RemoteTags(task[m].version) /\ fs[m].src = task[m].source
  /\ Len(fs[m].series) = NumPatches(m) /\ NoDuplicates(fs[m].series)
  /\ fs[m].applied = NumPatches(m)

\* C19: in the first run and in every later run over the directories of
\* the one before, a returned task leaves the checkout that one run leaves;
\* no checkout ever holds more patches than the module declares or holds
\* one twice; and patches are imported or applied only by a task that has
\* cloned the tree itself.
C19_RerunLeavesSameCheckout ==
  /\ [](\A m \in Modules :
          /\ fs[m].applied <= Len(fs[m].series)
          /\ Len(fs[m].series) <= NumPatches(m) /\ NoDuplicates(fs[m].series)
          /\ (task[m].pc = "returned" /\ ~startswith_local(conf[m].source)) => SyncedOnce(m))
  /\ [][\A m \in Modules :
          (fs'[m].applied > fs[m].applied \/ Len(fs'[m].series) > Len(fs[m].series))
            => Len(Clones(m)) = 1 /\ task[m].pc \in {"import", "push"}]_vars

\* C19 witness: a run has ended, and in the run after it the task of a
\* module with a patch has cloned and returned with the patch applied.
C19_SyncedAgainInSecondRun ==
  \E m \in Modules :
    /\ exitCode # <<>> /\ mainPc = "as_completed"
    /\ NumPatches(m) > 0 /\ Len(Clones(m)) = 1
    /\ task[m].pc = "returned" /\ fs[m].applied = NumPatches(m)

====
